---- MODULE Spec2Model ----
(***************************************************************************)
(* NextReset data refresh: the LKG-enabled orchestrator (scripts main),    *)
(* its persistence layer (live store and LKG vault), the providers'        *)
(* fallback builder, and the transport layer (fetchHtml with the browser   *)
(* budget).                                                                *)
(***************************************************************************)
EXTENDS Integers, Sequences, FiniteSets, TLC

\* ---------------------------------------------------------------- bounds
\* Number of process invocations (scheduled runs) explored.
MaxRuns == 3
\* Number of registry entries explored (a prefix of the 12-entry REGISTRY).
NumSources == 2

\* Largest value of the retries option explored (the default is 2).
MaxRetries == 2
\* Number of transport calls (fetchHtml / withBrowserPage) in one process.
MaxCalls == 4

\* ------------------------------------------------------------- constants
\* BrowserBudget.MAX
BrowserBudgetMax == 3
Undef == "undefined"
Null == "null"
NoTime == 0

\* The registry ids, in registry order ("<id>.<type>" is the document key).
FullRegistry ==
    << "fortnite.next-season", "lol.next-patch", "valorant.last-patch",
       "cs2.last-update", "minecraft.last-release", "roblox.status",
       "gta.weekly-reset", "warzone.last-patch", "genshin.next-banner",
       "pubg.last-patch", "red-dead-redemption-2.last-update",
       "ea-sports-fc.last-title-update" >>

REGISTRY == SubSeq(FullRegistry, 1, NumSources)

Sources == { REGISTRY[i] : i \in 1..Len(REGISTRY) }

\* Mutant: every provider labels its records with the first entry's key.
ProviderKey_FirstEntry(s) == REGISTRY[1]

\* The key (game, type) a provider puts in the records it builds (its META).
ProviderKey(s) == s

\* What a successful extraction carries: event time, source URL, confidence,
\* notes, and whether the provider also stamps last_success_at_utc itself.
FreshPayloads ==
    { [t |-> "T1", u |-> "U1", c |-> "high", n |-> "N1", ls |-> FALSE],
      [t |-> "T2", u |-> "U2", c |-> "medium", n |-> Undef, ls |-> TRUE] }

\* Failure explanation strings (error messages, "HTTP <status>").
Messages == { "HTTP 500" }

\* The FailureType a provider passes to buildFallback with each message.
FailureTypeOf(m) == IF m = "HTTP 500" THEN "unavailable" ELSE "parse_failed"

\* What one call of entry.run() can do.
Outcomes ==
    [kind : {"fresh"}, p : FreshPayloads]
        \cup [kind : {"throw"}, msg : Messages]
        \cup [kind : {"empty"}]
        \cup [kind : {"ok"}]
        \cup { [kind |-> "fallback", ft |-> FailureTypeOf(m), msg |-> m] : m \in Messages }

\* A record with every field a result can carry; Undef / NoTime mark a field
\* the object does not have.
BlankRecord ==
    [ game |-> Undef, status |-> Undef, nextEventUtc |-> Undef,
      source_url |-> Undef, confidence |-> Undef, notes |-> Undef,
      reason |-> Undef, explanation |-> Undef, failure_type |-> Undef,
      fetched_at_utc |-> NoTime, last_success_at_utc |-> NoTime,
      last_good_at_utc |-> NoTime ]

Merge(base, over) ==
    [ f \in DOMAIN base |-> IF f \in DOMAIN over THEN over[f] ELSE base[f] ]

\* A missing file, a file that is not valid JSON, and the null a reader returns.
ABSENT == Merge(BlankRecord, [status |-> "<no file>"])
CORRUPT == Merge(BlankRecord, [status |-> "<invalid json>"])
NullResult == Merge(BlankRecord, [status |-> "<null>"])

\* JavaScript truthiness of an optional string field, and a || b.
Truthy(v) == v # Undef /\ v # Null /\ v # ""
OrElse(a, b) == IF Truthy(a) THEN a ELSE b

VARIABLES
    live,       \* live store: document key -> record | ABSENT
    lkg,        \* LKG vault:  document key -> record | ABSENT | CORRUPT
    pc,         \* "idle" | "loop" | "summary" | "exited"
                \* (refresh-all: "ra_loop" | "ra_summary")
    idx,        \* position of the for-loop in REGISTRY (1-based)
    results,    \* the results array of the current run
    outcomes,   \* what each provider call of the current run did
    exitCode,   \* process exit code of the last run, -1 while running
    run,        \* number of process invocations started
    clock,      \* wall clock (ticks once per provider call)
    obs,        \* observations: (source, outcome, LKG before, record written)
                \* of loop iterations, or the last persistence call
    budgetCount,    \* BrowserBudget.count of this process
    fpc,        \* transport: "idle" | "http" | "sleep" | "launch" | "page" | "done"
                \*            | "retry_http" | "retry_sleep"
    opts,       \* options of the fetchHtml call in progress
    attempt,    \* loop variable of fetchHtml
    responses,  \* what each HTTP request of this call met
    launches,   \* browser launches attempted by this call
    openBrowsers,   \* browser sessions launched and not yet closed
    budgetAtCall,   \* budgetCount when the call in progress started
    fres,       \* the FetchResult returned (or what withBrowserPage did)
    slept,      \* milliseconds of the last backoff sleep of this call
    calls       \* transport calls made so far in this process

orchVars == << live, lkg, pc, idx, results, outcomes, exitCode, run, clock >>

fetchVars == << budgetCount, fpc, opts, attempt, responses, launches,
                openBrowsers, budgetAtCall, fres, slept, calls >>

vars == << live, lkg, pc, idx, results, outcomes, exitCode, run, clock, obs,
           budgetCount, fpc, opts, attempt, responses, launches,
           openBrowsers, budgetAtCall, fres, slept, calls >>

\* ------------------------------------------------- persistence (part_002)
\* Mutant: a file that does not parse is handed back as it is.
readLkgData_NoCatch(store, key) ==
    IF store[key] = ABSENT THEN NullResult ELSE store[key]

readLkgData(store, key) ==
    IF store[key] = ABSENT THEN NullResult
    ELSE IF store[key] = CORRUPT THEN NullResult
    ELSE store[key]

\* Mutant: the record is written over every live document.
writeLiveJson_AllDocuments(store, data) == [k \in DOMAIN store |-> data]

writeLiveJson(store, data) == [store EXCEPT ![data.game] = data]

\* Mutant: the vault accepts any record.
writeLkgJson_NoGuard(store, data) == [store EXCEPT ![data.game] = data]

writeLkgJson(store, data) ==
    IF data.status # "fresh" THEN store
    ELSE [store EXCEPT ![data.game] = data]

\* writeLkgJson throws only past its guard, when ensureDataDirs or
\* fs.writeFileSync fails.
writeLkgJsonThrows(data, ioFails) == data.status = "fresh" /\ ioFails

\* ------------------------------------- providers' helper (lib/data-output)
readLastGood(store, key) ==
    IF store[key] = ABSENT THEN NullResult
    ELSE IF store[key] = CORRUPT THEN NullResult
    ELSE store[key]

buildFallback(key, failureType, explanation, lastGood, now) ==
    IF lastGood # NullResult
       /\ lastGood.status \in {"fresh", "stale"}
       /\ Truthy(lastGood.nextEventUtc)
    THEN Merge(BlankRecord,
               [ game |-> key, status |-> "stale",
                 nextEventUtc |-> lastGood.nextEventUtc,
                 last_good_at_utc |->
                     IF lastGood.status = "fresh" THEN lastGood.fetched_at_utc
                     ELSE lastGood.last_good_at_utc,
                 fetched_at_utc |-> now,
                 source_url |-> lastGood.source_url,
                 confidence |-> lastGood.confidence,
                 reason |-> explanation,
                 notes |-> lastGood.notes ])
    ELSE Merge(BlankRecord,
               [ game |-> key, status |-> "fallback", nextEventUtc |-> Null,
                 failure_type |-> failureType, explanation |-> explanation,
                 fetched_at_utc |-> now ])

\* ------------------------------------------------------------- providers
\* The Fresh record a provider returns on success.
FreshRecord(key, p, now) ==
    Merge(BlankRecord,
          [ game |-> key, status |-> "fresh", nextEventUtc |-> p.t,
            fetched_at_utc |-> now,
            last_success_at_utc |-> IF p.ls THEN now ELSE NoTime,
            source_url |-> p.u, confidence |-> p.c, notes |-> p.n ])

\* The result of an old-format provider: status "ok", no fetched_at_utc.
OkRecord(key) ==
    Merge(BlankRecord,
          [ game |-> key, status |-> "ok", nextEventUtc |-> "T1",
            confidence |-> "high", notes |-> "N1" ])

\* entry.run(): either a returned value or a thrown error message.
ProviderRun(s, o, liveStore, now) ==
    CASE o.kind = "fresh" ->
            [thrown |-> FALSE, value |-> FreshRecord(ProviderKey(s), o.p, now), msg |-> Undef]
      [] o.kind = "ok" ->
            [thrown |-> FALSE, value |-> OkRecord(ProviderKey(s)), msg |-> Undef]
      [] o.kind = "empty" ->
            [thrown |-> FALSE, value |-> BlankRecord, msg |-> Undef]
      [] o.kind = "fallback" ->
            [thrown |-> FALSE,
             value |-> buildFallback(ProviderKey(s), o.ft, o.msg,
                                     readLastGood(liveStore, ProviderKey(s)), now),
             msg |-> Undef]
      [] o.kind = "throw" ->
            [thrown |-> TRUE, value |-> BlankRecord, msg |-> o.msg]

\* ------------------------------------------------- orchestrator (main)
UnavailableRecord(s, explanation, now) ==
    Merge(BlankRecord,
          [ game |-> s, status |-> "unavailable", nextEventUtc |-> Null,
            failure_type |-> "unavailable", explanation |-> explanation,
            fetched_at_utc |-> now ])

\* Mutant: the shape of the returned value is not validated.
AttemptRun_NoValidation(s, o, liveStore, now) ==
    LET r == ProviderRun(s, o, liveStore, now)
    IN IF r.thrown
       THEN UnavailableRecord(s, "Crashed: " \o r.msg, now)
       ELSE r.value

\* Mutant: the explanation is the bare error message.
AttemptRun_NoPrefix(s, o, liveStore, now) ==
    LET r == ProviderRun(s, o, liveStore, now)
        crash == IF r.thrown THEN r.msg
                 ELSE IF ~Truthy(r.value.status)
                      THEN "Provider returned invalid/empty result"
                      ELSE Undef
    IN IF crash # Undef
       THEN UnavailableRecord(s, crash, now)
       ELSE r.value

\* Lines 124-149: call the provider, validate the shape, catch any crash.
AttemptRun(s, o, liveStore, now) ==
    LET r == ProviderRun(s, o, liveStore, now)
        crash == IF r.thrown THEN r.msg
                 ELSE IF ~Truthy(r.value.status)
                      THEN "Provider returned invalid/empty result"
                      ELSE Undef
    IN IF crash # Undef
       THEN UnavailableRecord(s, "Crashed: " \o crash, now)
       ELSE r.value

\* Mutant: the failed result is spread instead of the LKG record.
StaleFromLkg_SpreadsResult(s, l, result, now) ==
    Merge(result,
          [ status |-> "stale",
            fetched_at_utc |-> now,
            last_success_at_utc |-> l.fetched_at_utc,
            reason |-> IF result.status = "unavailable" THEN result.explanation
                       ELSE OrElse(result.reason, "Unknown failure"),
            game |-> s ])

\* Mutant: the success time is taken to be the time of the current run.
StaleFromLkg_ResetsTimestamp(s, l, result, now) ==
    Merge(l,
          [ status |-> "stale",
            fetched_at_utc |-> now,
            last_success_at_utc |-> now,
            reason |-> IF result.status = "unavailable" THEN result.explanation
                       ELSE OrElse(result.reason, "Unknown failure"),
            game |-> s ])

\* Lines 169-179: downgrade to Stale from the LKG record.
StaleFromLkg(s, l, result, now) ==
    Merge(l,
          [ status |-> "stale",
            fetched_at_utc |-> now,
            last_success_at_utc |-> l.fetched_at_utc,
            reason |-> IF result.status = "unavailable" THEN result.explanation
                       ELSE OrElse(result.reason, "Unknown failure"),
            game |-> s ])

\* Mutant: only a stale LKG record is taken as recoverable.
Classify_LkgMustBeStale(s, result, l, now) ==
    IF result.status = "fresh" THEN result
    ELSE IF l # NullResult /\ l.status = "stale" THEN StaleFromLkg(s, l, result, now)
    ELSE IF result.status # "unavailable"
         THEN UnavailableRecord(s, OrElse(result.reason, "Unknown failure"), now)
         ELSE result

\* Mutant: without LKG the failed result is written in the shape it came.
Classify_KeepsShape(s, result, l, now) ==
    IF result.status = "fresh" THEN result
    ELSE IF l # NullResult /\ l.status = "fresh" THEN StaleFromLkg(s, l, result, now)
    ELSE result

\* Mutant: the old success status "ok" is taken as a success too.
Classify_OkCountsAsFresh(s, result, l, now) ==
    IF result.status \in {"fresh", "ok"} THEN result
    ELSE IF l # NullResult /\ l.status = "fresh" THEN StaleFromLkg(s, l, result, now)
    ELSE IF result.status # "unavailable"
         THEN UnavailableRecord(s, OrElse(result.reason, "Unknown failure"), now)
         ELSE result

\* Mutant: a provider's own "fallback" record is taken as already marked.
Classify_FallbackIsMarked(s, result, l, now) ==
    IF result.status = "fresh" THEN result
    ELSE IF l # NullResult /\ l.status = "fresh" THEN StaleFromLkg(s, l, result, now)
    ELSE IF result.status \notin {"unavailable", "fallback"}
         THEN UnavailableRecord(s, OrElse(result.reason, "Unknown failure"), now)
         ELSE result

\* Lines 153-209: the record that ends up in results for this entry.
Classify(s, result, l, now) ==
    IF result.status = "fresh" THEN result
    ELSE IF l # NullResult /\ l.status = "fresh" THEN StaleFromLkg(s, l, result, now)
    ELSE IF result.status # "unavailable"
         THEN UnavailableRecord(s, OrElse(result.reason, "Unknown failure"), now)
         ELSE result

\* Mutant: the vault is overwritten with whatever the run ended with.
LkgAfter_Always(store, attempted, result) ==
    [store EXCEPT ![result.game] = result]

\* Lines 154-185: the LKG vault after the entry has been persisted.
LkgAfter(store, attempted, result) ==
    IF attempted.status = "fresh" THEN writeLkgJson(store, result) ELSE store

Count(seq, st) == Cardinality({ i \in 1..Len(seq) : seq[i].status = st })

\* Lines 219-247: failureRatio > 0.5 decides the exit code.
\* Mutant: half of the sources unavailable already counts as catastrophic.
ExitCodeOf_AtLeastHalf(seq) ==
    IF Len(seq) > 0 /\ 2 * Cardinality({ i \in 1..Len(seq) : seq[i].status = "unavailable" }) >= Len(seq)
    THEN 1 ELSE 0

\* failureRatio is the fraction num/den; (num/den > 0.5) is (2*num > den).
ExitCodeOf(seq) ==
    LET total == Len(seq)
        unavailableCount == Count(seq, "unavailable")
        failureRatio == IF total > 0
                        THEN [num |-> unavailableCount, den |-> total]
                        ELSE [num |-> 0, den |-> 1]
    IN IF 2 * failureRatio.num > failureRatio.den THEN 1 ELSE 0

\* ------------------------------------------- transport (fetch-layer.ts)
\* Mutant: the budget check is off by one.
canUse_OffByOne(count) == count <= BrowserBudgetMax

\* BrowserBudget.canUse / getRemaining
canUse(count) == count < BrowserBudgetMax
getRemaining(count) == BrowserBudgetMax - count

\* What one HTTP request can meet: a response status, a response whose body
\* cannot be read, or a transport error (network failure, abort on timeout).
Responses ==
    [kind : {"status"}, status : {200, 403, 429, 404, 500}]
        \cup { [kind |-> "bodyerr", status |-> 200],
               [kind |-> "neterr", status |-> 0],
               [kind |-> "abort", status |-> 0] }

\* What a browser navigation can end in: a final status (0: no response
\* object), a navigation failure / timeout, or a failure after which
\* browser.close() in the catch block throws as well.
PageOutcomes ==
    [kind : {"status"}, status : {200, 403, 500, 0}]
        \cup { [kind |-> "navfail", status |-> 0],
               [kind |-> "closefail", status |-> 0] }

NoResult ==
    [ kind |-> "none", ok |-> FALSE, status |-> 0, mode |-> Undef,
      error |-> Undef, failureType |-> Undef ]

FetchResult(ok, status, mode, error, failureType) ==
    [ kind |-> "fetch", ok |-> ok, status |-> status, mode |-> mode,
      error |-> error, failureType |-> failureType ]

\* The call ended by an exception that reached the caller.
Thrown(msg) ==
    [ kind |-> "threw", ok |-> FALSE, status |-> 0, mode |-> Undef,
      error |-> msg, failureType |-> Undef ]

NoOpts == [retries |-> 0, useBrowserOnBlocked |-> FALSE]

classifyStatus(status) ==
    IF status = 403 \/ status = 429 THEN "blocked"
    ELSE IF status >= 500 \/ status = 0 THEN "unavailable"
    ELSE "unavailable"

IsBlockedStatus(status) == status = 403 \/ status = 429

Min(x, y) == IF x < y THEN x ELSE y

RECURSIVE Pow2(_)
Pow2(n) == IF n = 0 THEN 1 ELSE 2 * Pow2(n - 1)

\* Math.min(1000 * Math.pow(2, attempt) + Math.random() * 500, 5000)
Backoff(att, jitter) == Min(1000 * Pow2(att) + jitter, 5000)

\* The result fetchHtml returns after an HTTP error status, if it returns.
HttpFailure(status) ==
    FetchResult(FALSE, status, "http", "HTTP " \o ToString(status),
                classifyStatus(status))

BudgetExhausted(status) ==
    FetchResult(FALSE, status, "http", "Blocked and browser budget exhausted",
                "blocked")

\* The return after the loop: the last transport error.
LastErrorFailure(resp) ==
    FetchResult(FALSE, 0, "http", resp.kind, "unavailable")

\* The result of the catch block of fetchWithBrowser.
BrowserFailure(msg) ==
    FetchResult(FALSE, 0, "browser", msg, "blocked")

BrowserResult(status) ==
    FetchResult(status >= 200 /\ status < 300, status, "browser", Undef, Undef)

InitOrch ==
    /\ live = [s \in Sources |-> ABSENT]
    /\ lkg = [s \in Sources |-> ABSENT]
    /\ pc = "idle"
    /\ idx = 1
    /\ results = << >>
    /\ outcomes = << >>
    /\ exitCode = -1
    /\ run = 0
    /\ clock = 0
    /\ obs = {}

InitFetch ==
    /\ budgetCount = 0
    /\ fpc = "idle"
    /\ opts = NoOpts
    /\ attempt = 0
    /\ responses = << >>
    /\ launches = 0
    /\ openBrowsers = 0
    /\ budgetAtCall = 0
    /\ fres = NoResult
    /\ slept = 0
    /\ calls = 0

Init == InitOrch /\ InitFetch

\* A scheduled invocation starts the process; ensureDataDirs succeeds.
Start ==
    /\ pc \in {"idle", "exited"}
    /\ run < MaxRuns
    /\ run' = run + 1
    /\ pc' = "loop"
    /\ idx' = 1
    /\ results' = << >>
    /\ outcomes' = << >>
    /\ exitCode' = -1
    /\ UNCHANGED << live, lkg, clock, obs >>
    /\ UNCHANGED fetchVars

\* Mutant: the start-up failure is reported but the process exits 0.
StartDirsFail_ExitsZero ==
    /\ pc \in {"idle", "exited"}
    /\ run < MaxRuns
    /\ run' = run + 1
    /\ pc' = "exited"
    /\ idx' = 1
    /\ results' = << >>
    /\ outcomes' = << >>
    /\ exitCode' = 0
    /\ UNCHANGED << live, lkg, clock, obs >>
    /\ UNCHANGED fetchVars

\* ensureDataDirs throws: the process exits 1 before any provider runs.
StartDirsFail ==
    /\ pc \in {"idle", "exited"}
    /\ run < MaxRuns
    /\ run' = run + 1
    /\ pc' = "exited"
    /\ idx' = 1
    /\ results' = << >>
    /\ outcomes' = << >>
    /\ exitCode' = 1
    /\ UNCHANGED << live, lkg, clock, obs >>
    /\ UNCHANGED fetchVars

\* What an observer of one loop iteration sees, timestamps removed.
StripTimes(r) ==
    [r EXCEPT !.fetched_at_utc = NoTime, !.last_success_at_utc = NoTime,
              !.last_good_at_utc = NoTime]

Observation(s, o, lkgDoc, written) ==
    [src |-> s, outcome |-> o, lkgDoc |-> lkgDoc, written |-> StripTimes(written)]

\* Mutant: a provider that throws ends the run (the error escapes to
\* main().catch, which exits 1).
Iterate_StopsOnCrash(o) ==
    /\ pc = "loop"
    /\ idx <= Len(REGISTRY)
    /\ \E s \in {REGISTRY[idx]}, now \in {clock + 1} :
       \E attempted \in {AttemptRun(s, o, live, now)},
          l \in {readLkgData(lkg, s)} :
       \E result \in {Classify(s, attempted, l, now)} :
       /\ clock' = now
       /\ outcomes' = Append(outcomes, o)
       /\ IF o.kind = "throw"
          THEN /\ pc' = "exited"
               /\ exitCode' = 1
               /\ UNCHANGED << live, lkg, results, idx >>
          ELSE /\ live' = writeLiveJson(live, result)
               /\ lkg' = LkgAfter(lkg, attempted, result)
               /\ results' = Append(results, result)
               /\ idx' = idx + 1
               /\ pc' = IF idx = Len(REGISTRY) THEN "summary" ELSE "loop"
               /\ UNCHANGED exitCode
       /\ UNCHANGED run
       /\ UNCHANGED fetchVars

\* One iteration of the for-loop over REGISTRY, the provider doing o: the
\* entry s, the time now, the attempted result, the LKG document l read and
\* the final result are each computed once.
Iterate(o) ==
    /\ pc = "loop"
    /\ idx <= Len(REGISTRY)
    /\ \E s \in {REGISTRY[idx]}, now \in {clock + 1} :
       \E attempted \in {AttemptRun(s, o, live, now)},
          l \in {readLkgData(lkg, s)} :
       \E result \in {Classify(s, attempted, l, now)} :
       /\ clock' = now
       /\ live' = writeLiveJson(live, result)
       /\ lkg' = LkgAfter(lkg, attempted, result)
       /\ results' = Append(results, result)
       /\ outcomes' = Append(outcomes, o)
       /\ idx' = idx + 1
       /\ pc' = IF idx = Len(REGISTRY) THEN "summary" ELSE "loop"
       /\ UNCHANGED << exitCode, run >>
       /\ UNCHANGED fetchVars

ProcessSource ==
    \E o \in Outcomes : Iterate(o) /\ UNCHANGED obs

\* The same iteration, with what it read and wrote recorded.
ProcessSourceObserved ==
    \E o \in Outcomes :
        /\ Iterate(o)
        /\ obs' = obs \cup
              { Observation(REGISTRY[idx], o, lkg[REGISTRY[idx]],
                            live'[REGISTRY[idx]]) }

\* Summary and process.exit.
Summary ==
    /\ pc = "summary"
    /\ exitCode' = ExitCodeOf(results)
    /\ pc' = "exited"
    /\ UNCHANGED << live, lkg, idx, results, outcomes, run, clock, obs >>
    /\ UNCHANGED fetchVars

\* Environment fault: an LKG document becomes unreadable (invalid JSON).
CorruptLkg ==
    /\ pc \in {"idle", "exited"}
    /\ \E s \in Sources :
        /\ lkg[s] \notin {ABSENT, CORRUPT}
        /\ lkg' = [lkg EXCEPT ![s] = CORRUPT]
    /\ UNCHANGED << live, pc, idx, results, outcomes, exitCode, run, clock, obs >>
    /\ UNCHANGED fetchVars

\* ---- fetchHtml
\* A caller invokes fetchHtml(url, {retries, useBrowserOnBlocked}).
CallFetchHtml ==
    /\ fpc \in {"idle", "done"}
    /\ calls < MaxCalls
    /\ \E r \in 0..MaxRetries, b \in BOOLEAN :
        opts' = [retries |-> r, useBrowserOnBlocked |-> b]
    /\ fpc' = "http"
    /\ attempt' = 0
    /\ responses' = << >>
    /\ launches' = 0
    /\ budgetAtCall' = budgetCount
    /\ fres' = NoResult
    /\ slept' = 0
    /\ calls' = calls + 1
    /\ UNCHANGED << budgetCount, openBrowsers >>
    /\ UNCHANGED << orchVars, obs >>

\* Mutant: the loop body has no catch; the error reaches the caller.
CatchBlock_Rethrows(err, o, att, count) ==
    [pc |-> "done", att |-> att, budget |-> count, res |-> Thrown(err.kind)]

\* Lines 124-139: catch (err) of the loop body, for anything thrown inside
\* the try (fetch, response.text(), fetchWithBrowser): keep it as lastError,
\* leave the loop on the last attempt, otherwise back off and go round.
CatchBlock(err, o, att, count) ==
    IF att = o.retries
    THEN [pc |-> "done", att |-> att, budget |-> count,
          res |-> LastErrorFailure(err)]
    ELSE [pc |-> "sleep", att |-> att, budget |-> count, res |-> NoResult]

\* Mutant: the loop runs one attempt more than retries + 1.
HandleResponse_ExtraAttempt(resp, o, att, count) ==
    IF resp.kind = "status" /\ resp.status >= 200 /\ resp.status < 300
    THEN [pc |-> "done", att |-> att, budget |-> count,
          res |-> FetchResult(TRUE, resp.status, "http", Undef, Undef)]
    ELSE IF resp.kind = "status" /\ IsBlockedStatus(resp.status)
            /\ o.useBrowserOnBlocked
    THEN IF canUse(count)
         THEN [pc |-> "launch", att |-> att, budget |-> count + 1,
               res |-> NoResult]
         ELSE [pc |-> "done", att |-> att, budget |-> count,
               res |-> BudgetExhausted(resp.status)]
    ELSE IF resp.kind = "status"
    THEN IF att = o.retries + 1
         THEN [pc |-> "done", att |-> att, budget |-> count,
               res |-> HttpFailure(resp.status)]
         ELSE [pc |-> "http", att |-> att + 1, budget |-> count,
               res |-> NoResult]
    ELSE CatchBlock(resp, o, att, count)

\* How the loop body handles what the request met.
\* Returns [pc, res, att, budget].
HandleResponse(resp, o, att, count) ==
    IF resp.kind = "status" /\ resp.status >= 200 /\ resp.status < 300
    THEN [pc |-> "done", att |-> att, budget |-> count,
          res |-> FetchResult(TRUE, resp.status, "http", Undef, Undef)]
    ELSE IF resp.kind = "status" /\ IsBlockedStatus(resp.status)
            /\ o.useBrowserOnBlocked
    THEN IF canUse(count)
         THEN [pc |-> "launch", att |-> att, budget |-> count + 1,
               res |-> NoResult]
         ELSE [pc |-> "done", att |-> att, budget |-> count,
               res |-> BudgetExhausted(resp.status)]
    ELSE IF resp.kind = "status"
    THEN IF att = o.retries
         THEN [pc |-> "done", att |-> att, budget |-> count,
               res |-> HttpFailure(resp.status)]
         ELSE [pc |-> "http", att |-> att + 1, budget |-> count,
               res |-> NoResult]
    ELSE CatchBlock(resp, o, att, count)

\* One iteration of the retry loop: the request and the handling of its end.
HttpRequest ==
    /\ fpc = "http"
    /\ \E resp \in Responses :
        LET h == HandleResponse(resp, opts, attempt, budgetCount) IN
        /\ responses' = Append(responses, resp)
        /\ fpc' = h.pc
        /\ attempt' = h.att
        /\ budgetCount' = h.budget
        /\ fres' = h.res
    /\ UNCHANGED << opts, launches, openBrowsers, budgetAtCall, slept, calls >>
    /\ UNCHANGED << orchVars, obs >>

\* The backoff sleep after a transport error, with its random jitter.
BackoffSleep ==
    /\ fpc = "sleep"
    /\ \E jitter \in {0, 499} : slept' = Backoff(attempt, jitter)
    /\ attempt' = attempt + 1
    /\ fpc' = "http"
    /\ UNCHANGED << budgetCount, opts, responses, launches, openBrowsers,
                    budgetAtCall, fres, calls >>
    /\ UNCHANGED << orchVars, obs >>

\* fetchWithBrowser: chromium.launch succeeds or throws.
BrowserLaunch ==
    /\ fpc = "launch"
    /\ launches' = launches + 1
    /\ \/ /\ openBrowsers' = openBrowsers + 1
          /\ fpc' = "page"
          /\ fres' = fres
       \/ /\ openBrowsers' = openBrowsers
          /\ fpc' = "done"
          /\ fres' = BrowserFailure("launch failed")
    /\ UNCHANGED << budgetCount, opts, attempt, responses, budgetAtCall,
                    slept, calls >>
    /\ UNCHANGED << orchVars, obs >>

\* fetchWithBrowser: navigation, settle delay, content, close.
BrowserNavigate ==
    /\ fpc = "page"
    /\ \E po \in PageOutcomes :
        IF po.kind = "closefail"
        THEN LET h == CatchBlock(po, opts, attempt, budgetCount) IN
             /\ fres' = h.res
             /\ fpc' = h.pc
             /\ openBrowsers' = openBrowsers
        ELSE /\ fres' = IF po.kind = "status" THEN BrowserResult(po.status)
                        ELSE BrowserFailure("navigation failed")
             /\ fpc' = "done"
             /\ openBrowsers' = openBrowsers - 1
    /\ UNCHANGED << budgetCount, opts, attempt, responses, launches,
                    budgetAtCall, slept, calls >>
    /\ UNCHANGED << orchVars, obs >>

\* ---- withBrowserPage(callback): throws when the budget is used up or the
\* launch fails; otherwise uses the budget, runs the callback and closes.
WbpResult(kind) == [NoResult EXCEPT !.kind = kind, !.mode = "browser"]

\* Mutant: the budget is not tested before the launch.
WithBrowserPage_NoCheck ==
    /\ fpc \in {"idle", "done"}
    /\ calls < MaxCalls
    /\ calls' = calls + 1
    /\ fpc' = "done"
    /\ opts' = NoOpts
    /\ attempt' = 0
    /\ responses' = << >>
    /\ budgetAtCall' = budgetCount
    /\ slept' = 0
    /\ launches' = 1
    /\ fres' \in { WbpResult("wbp_returned"), WbpResult("wbp_threw") }
    /\ budgetCount' = budgetCount + 1
    /\ UNCHANGED openBrowsers
    /\ UNCHANGED << orchVars, obs >>

WithBrowserPage ==
    /\ fpc \in {"idle", "done"}
    /\ calls < MaxCalls
    /\ calls' = calls + 1
    /\ fpc' = "done"
    /\ opts' = NoOpts
    /\ attempt' = 0
    /\ responses' = << >>
    /\ budgetAtCall' = budgetCount
    /\ slept' = 0
    /\ IF ~canUse(budgetCount)
       THEN /\ fres' = WbpResult("wbp_exhausted")
            /\ launches' = 0
            /\ UNCHANGED << budgetCount, openBrowsers >>
       ELSE /\ launches' = 1
            /\ \/ /\ fres' = WbpResult("wbp_launch_failed")
                  /\ UNCHANGED << budgetCount, openBrowsers >>
               \/ /\ fres' \in { WbpResult("wbp_returned"), WbpResult("wbp_threw") }
                  /\ budgetCount' = budgetCount + 1
                  /\ openBrowsers' = (openBrowsers + 1) - 1
               \* finally: page.close() throws, browser.close() is not reached
               \/ /\ fres' = WbpResult("wbp_close_failed")
                  /\ budgetCount' = budgetCount + 1
                  /\ openBrowsers' = openBrowsers + 1
    /\ UNCHANGED << orchVars, obs >>

\* ---- fetchWithRetry (lib/http, the older transport helper)
RetryResult(ok, status, error) ==
    [ kind |-> "retry", ok |-> ok, status |-> status, mode |-> Undef,
      error |-> error, failureType |-> Undef ]

\* Math.min(baseMs * Math.pow(2, attempt) + Math.random() * 500, 10000)
getBackoff(att, jitter) == Min(1000 * Pow2(att) + jitter, 10000)

\* Mutant: the error of the last attempt is thrown on to the caller.
fetchWithRetryStep_ThrowsOnLast(resp, o, att) ==
    IF resp.kind = "status"
    THEN [pc |-> "done",
          res |-> RetryResult(resp.status >= 200 /\ resp.status < 300,
                              resp.status, Undef)]
    ELSE IF att = o.retries
    THEN [pc |-> "done", res |-> Thrown(resp.kind)]
    ELSE [pc |-> "retry_sleep", res |-> NoResult]

\* One iteration of fetchWithRetry's loop: any response whose body can be
\* read is returned (ok or not); anything thrown is retried after a backoff
\* and returned as an error result on the last attempt.
fetchWithRetryStep(resp, o, att) ==
    IF resp.kind = "status"
    THEN [pc |-> "done",
          res |-> RetryResult(resp.status >= 200 /\ resp.status < 300,
                              resp.status, Undef)]
    ELSE IF att = o.retries
    THEN [pc |-> "done",
          res |-> RetryResult(FALSE, 0,
                      IF resp.kind = "abort" THEN "Timeout" ELSE resp.kind)]
    ELSE [pc |-> "retry_sleep", res |-> NoResult]

CallFetchWithRetry ==
    /\ fpc \in {"idle", "done"}
    /\ calls < MaxCalls
    /\ \E r \in 0..MaxRetries :
        opts' = [retries |-> r, useBrowserOnBlocked |-> FALSE]
    /\ fpc' = "retry_http"
    /\ attempt' = 0
    /\ responses' = << >>
    /\ launches' = 0
    /\ budgetAtCall' = budgetCount
    /\ fres' = NoResult
    /\ slept' = 0
    /\ calls' = calls + 1
    /\ UNCHANGED << budgetCount, openBrowsers >>
    /\ UNCHANGED << orchVars, obs >>

RetryRequest ==
    /\ fpc = "retry_http"
    /\ \E resp \in Responses :
        LET h == fetchWithRetryStep(resp, opts, attempt) IN
        /\ responses' = Append(responses, resp)
        /\ fpc' = h.pc
        /\ fres' = h.res
    /\ UNCHANGED << budgetCount, opts, attempt, launches, openBrowsers,
                    budgetAtCall, slept, calls >>
    /\ UNCHANGED << orchVars, obs >>

RetrySleep ==
    /\ fpc = "retry_sleep"
    /\ \E jitter \in {0, 499} : slept' = getBackoff(attempt, jitter)
    /\ attempt' = attempt + 1
    /\ fpc' = "retry_http"
    /\ UNCHANGED << budgetCount, opts, responses, launches, openBrowsers,
                    budgetAtCall, fres, calls >>
    /\ UNCHANGED << orchVars, obs >>

\* ---- the persistence functions called directly
\* Records of every shape a caller can hand to the persistence layer.
PersistInputs ==
    UNION { { FreshRecord(s, p, t) : p \in FreshPayloads, t \in 1..MaxRuns }
            \cup { buildFallback(s, FailureTypeOf(m), m, lg, MaxRuns) :
                       m \in Messages,
                       lg \in { NullResult } \cup
                              { FreshRecord(s, p, 1) : p \in FreshPayloads } }
            \cup { UnavailableRecord(s, m, 1) : m \in Messages }
            \cup { OkRecord(s), [BlankRecord EXCEPT !.game = s] }
          : s \in Sources }

\* writeLkgJson(data), the file system failing or not on a write.
CallWriteLkgJson ==
    /\ pc = "idle"
    /\ \E d \in PersistInputs, ioFails \in BOOLEAN :
        LET threw == writeLkgJsonThrows(d, ioFails) IN
        /\ lkg' = IF threw THEN lkg ELSE writeLkgJson(lkg, d)
        /\ obs' = { [ op |-> "writeLkgJson", arg |-> d, threw |-> threw,
                      changed |-> { s \in Sources : lkg'[s] # lkg[s] } ] }
    /\ UNCHANGED << live, pc, idx, results, outcomes, exitCode, run, clock >>
    /\ UNCHANGED fetchVars

\* ---- the refresh-all orchestrator (the README's exit policy)
\* What a provider does under refresh-all: return a result or throw.
RaOutcomes == { o \in Outcomes : o.kind \in {"fresh", "ok", "throw"} }

\* writeProviderData: <game>.<type>.json is overwritten with the result.
writeProviderData(store, data) == [store EXCEPT ![data.game] = data]

\* runProvider: success with the result, or failure with the caught error.
runProvider(s, o, liveStore, now) ==
    LET r == ProviderRun(s, o, liveStore, now)
    IN [success |-> ~r.thrown, result |-> r.value]

\* The entry pushed for a failed provider: hasFallback is the constant
\* false (jsonExists is never called).
RaFailureEntry(s) == [name |-> s, success |-> FALSE, hasFallback |-> FALSE]

RaSuccessEntry(s) == [name |-> s, success |-> TRUE, hasFallback |-> TRUE]

\* The exit policy at the end of refresh-all's main.
RaExitCodeOf(seq) ==
    LET successCount == Cardinality({ i \in 1..Len(seq) : seq[i].success })
        missingData == { i \in 1..Len(seq) :
                            ~seq[i].success /\ ~seq[i].hasFallback }
    IN IF missingData # {} THEN 1
       ELSE IF successCount = 0 THEN 1
       ELSE 0

RaStart ==
    /\ pc \in {"idle", "exited"}
    /\ run < MaxRuns
    /\ run' = run + 1
    /\ pc' = "ra_loop"
    /\ idx' = 1
    /\ results' = << >>
    /\ outcomes' = << >>
    /\ exitCode' = -1
    /\ UNCHANGED << live, lkg, clock, obs >>
    /\ UNCHANGED fetchVars

\* One iteration of refresh-all's loop over its providers.
RaProcess ==
    /\ pc = "ra_loop"
    /\ idx <= Len(REGISTRY)
    /\ \E o \in RaOutcomes :
       \E s \in {REGISTRY[idx]}, now \in {clock + 1} :
       \E outcome \in {runProvider(s, o, live, now)} :
       /\ clock' = now
       /\ outcomes' = Append(outcomes, o)
       /\ IF outcome.success
          THEN /\ live' = writeProviderData(live, outcome.result)
               /\ results' = Append(results, RaSuccessEntry(s))
          ELSE /\ live' = live
               /\ results' = Append(results, RaFailureEntry(s))
    /\ idx' = idx + 1
    /\ pc' = IF idx = Len(REGISTRY) THEN "ra_summary" ELSE "ra_loop"
    /\ UNCHANGED << lkg, exitCode, run, obs >>
    /\ UNCHANGED fetchVars

RaSummary ==
    /\ pc = "ra_summary"
    /\ exitCode' = RaExitCodeOf(results)
    /\ pc' = "exited"
    /\ UNCHANGED << live, lkg, idx, results, outcomes, run, clock, obs >>
    /\ UNCHANGED fetchVars

NextRefreshAll == RaStart \/ RaProcess \/ RaSummary

SpecRefreshAll == Init /\ [][NextRefreshAll]_vars

\* ---- the static frontend (public/assets/app.js), game page
\* The document keys a page can ask for: every registry entry.
PageKeys == { FullRegistry[i] : i \in 1..Len(FullRegistry) }

\* data.type?.startsWith('next-') || data.type?.includes('reset')
IsUpcoming(key) ==
    key \in { "fortnite.next-season", "lol.next-patch", "genshin.next-banner",
              "gta.weekly-reset" }

\* The JSON documents a page can be handed: every shape the orchestrators
\* write, and stale documents without event time, confidence or reason.
PageInputs ==
    UNION { { FreshRecord(k, p, 1) : p \in FreshPayloads }
            \cup { buildFallback(k, FailureTypeOf(m), m, lg, 2) :
                       m \in Messages,
                       lg \in { NullResult } \cup
                              { FreshRecord(k, p, 1) : p \in FreshPayloads } }
            \cup { UnavailableRecord(k, m, 1) : m \in Messages }
            \cup { OkRecord(k) }
            \cup { StaleFromLkg(k, FreshRecord(k, p, 1),
                                UnavailableRecord(k, m, 2), 2) :
                       p \in FreshPayloads, m \in Messages }
            \cup { [ StaleFromLkg(k, FreshRecord(k, p, 1),
                                  UnavailableRecord(k, m, 2), 2)
                       EXCEPT !.confidence = "none" ] :
                       p \in FreshPayloads, m \in Messages }
            \cup { [ StaleFromLkg(k, FreshRecord(k, p, 1),
                                  UnavailableRecord(k, m, 2), 2)
                       EXCEPT !.reason = Undef ] :
                       p \in FreshPayloads, m \in Messages }
          : k \in PageKeys }

\* Mutant: only the status decides.
isDataUnavailable_StatusOnly(data) ==
    data.status = "unavailable" \/ data.status = "fallback"

isDataUnavailable(data) ==
    \/ ~Truthy(data.nextEventUtc)
    \/ data.confidence = "none"
    \/ data.status = "unavailable"
    \/ data.status = "fallback"

\* tick(): what the countdown element shows, the event being ahead or not.
tick(data, isFuture) ==
    IF ~isFuture /\ IsUpcoming(data.game) THEN "Updating..."
    ELSE IF isFuture THEN "Time Until Event"
    ELSE "Time Since Event"

\* updateCountdown(data): the page after the call (countdown element, notes
\* element, stale class, and whether setInterval(tick, 1000) was called).
updateCountdown(data, isFuture) ==
    IF isDataUnavailable(data)
    THEN [ countdown |-> "Data Unavailable",
           notes |-> IF Truthy(data.reason) THEN data.reason ELSE Undef,
           staleClass |-> FALSE, timer |-> FALSE ]
    ELSE [ countdown |-> tick(data, isFuture),
           notes |-> IF data.status = "stale"
                     THEN IF Truthy(data.reason)
                          THEN "Using cached data: " \o data.reason
                          ELSE "Using cached data"
                     ELSE data.notes,
           staleClass |-> data.status = "stale",
           timer |-> TRUE ]

\* initGamePage: the document is fetched and handed to updateCountdown.
LoadGamePage ==
    /\ pc = "idle"
    /\ \E data \in PageInputs, isFuture \in BOOLEAN :
        obs' = { [ op |-> "updateCountdown", data |-> data,
                   future |-> isFuture,
                   view |-> updateCountdown(data, isFuture) ] }
    /\ UNCHANGED << live, lkg, pc, idx, results, outcomes, exitCode, run, clock >>
    /\ UNCHANGED fetchVars

\* The interval timer fires: tick() runs again, time having moved on.
TimerTick ==
    /\ pc = "idle"
    /\ \E o \in obs :
        /\ o.op = "updateCountdown"
        /\ o.view.timer
        /\ \E isFuture \in { o.future, FALSE } :
            obs' = { [ o EXCEPT !.future = isFuture,
                                !.view.countdown = tick(o.data, isFuture) ] }
    /\ UNCHANGED << live, lkg, pc, idx, results, outcomes, exitCode, run, clock >>
    /\ UNCHANGED fetchVars

NextFrontend == LoadGamePage \/ TimerTick

SpecFrontend == Init /\ [][NextFrontend]_vars

\* ---- the GTA Online weekly-reset provider (computed, no fetch)
\* The instants new Date() can give, as UTC day of the week (0 = Sunday),
\* hour, minute, and milliseconds into the minute.
GtaClock ==
    [ day : 0..6, hour : 0..23, minute : 0..59, ms : {0, 1, 30000, 59999} ]

\* Milliseconds since Sunday 00:00:00.000 UTC of the week of `now`.
WeekMs(day, hour, minute, ms) ==
    ((day * 24 + hour) * 60 + minute) * 60000 + ms

\* run(): nextReset, in milliseconds since the start of the week of `now`
\* (setUTCDate carries over into the following week).
gtaNextReset(now) ==
    LET currentDay == now.day
        currentHour == now.hour
        currentMinute == now.minute
        d0 == (4 - currentDay + 7) % 7
        d1 == IF currentDay = 4 /\ (currentHour > 10 \/
                                     (currentHour = 10 /\ currentMinute > 0))
              THEN 7 ELSE d0
        daysUntilThursday == IF d1 = 0 /\ currentDay # 4 THEN 7 ELSE d1
    IN  WeekMs(currentDay + daysUntilThursday, 10, 0, 0)

\* The provider is run once, at some instant of the week.
GtaRun ==
    /\ pc = "idle"
    /\ obs = {}
    /\ \E now \in GtaClock :
        obs' = { [ op |-> "gta.run",
                   now |-> WeekMs(now.day, now.hour, now.minute, now.ms),
                   game |-> "gta.weekly-reset", status |-> "fresh",
                   confidence |-> "high",
                   nextEventUtc |-> gtaNextReset(now) ] }
    /\ UNCHANGED << live, lkg, pc, idx, results, outcomes, exitCode, run, clock >>
    /\ UNCHANGED fetchVars

NextGta == GtaRun

SpecGta == Init /\ [][NextGta]_vars

Next == Start \/ StartDirsFail \/ ProcessSource \/ Summary

Spec == Init /\ [][Next]_vars

\* Every provider call eventually returns or throws, and the code between
\* two calls runs to its end: an enabled iteration or summary is taken.
SpecLive == Init /\ [][Next]_vars /\ WF_vars(ProcessSource) /\ WF_vars(Summary)

NextFault == Next \/ CorruptLkg

SpecFault == Init /\ [][NextFault]_vars

NextObserved ==
    Start \/ StartDirsFail \/ ProcessSourceObserved \/ Summary \/ CorruptLkg

SpecObserved == Init /\ [][NextObserved]_vars

NextPersist == CallWriteLkgJson \/ CorruptLkg

SpecPersist == Init /\ [][NextPersist]_vars

NextFetch ==
    \/ CallFetchHtml
    \/ HttpRequest
    \/ BackoffSleep
    \/ BrowserLaunch
    \/ BrowserNavigate
    \/ WithBrowserPage
    \/ CallFetchWithRetry
    \/ RetryRequest
    \/ RetrySleep

SpecFetch == Init /\ [][NextFetch]_vars

\* ------------------------------------------------------------ properties
\* The run is inside the loop or at the summary: results[i] and outcomes[i]
\* belong to REGISTRY[i], and nothing has touched the stores since.
Running == pc \in {"loop", "summary"}

Readable(doc) == doc # ABSENT /\ doc # CORRUPT

Failed(o) == o.kind # "fresh"

\* C1: once the LKG vault holds a readable Fresh record for a source, every
\* run whose provider throws or returns a non-fresh result writes a live
\* record with status stale and a non-null nextEventUtc.
C1_NeverRegresses ==
    Running =>
        \A i \in 1..Len(results) :
            LET s == REGISTRY[i] IN
            (Readable(lkg[s]) /\ Failed(outcomes[i])) =>
                /\ results[i].status = "stale"
                /\ Truthy(results[i].nextEventUtc)
                /\ live[s] = results[i]

C1_Witness ==
    /\ Running
    /\ \E i \in 1..Len(results) :
        /\ outcomes[i].kind = "throw"
        /\ Readable(lkg[REGISTRY[i]])
        /\ live[REGISTRY[i]].status = "stale"
        /\ lkg[REGISTRY[i]].fetched_at_utc < live[REGISTRY[i]].fetched_at_utc

\* C2: over any sequence of runs a source's LKG document changes only in a
\* step whose provider returned Fresh, and then to exactly that Fresh record;
\* a step that ends Stale or Unavailable leaves the LKG document as it was.
C2_MonotonicLkg ==
    [][ \A s \in Sources :
            \/ lkg'[s] = lkg[s]
            \/ /\ pc = "loop"
               /\ s = REGISTRY[idx]
               /\ results' = Append(results, lkg'[s])
               /\ outcomes'[idx].kind = "fresh"
               /\ lkg'[s] = FreshRecord(s, outcomes'[idx].p, clock')
      ]_vars

C2_Witness ==
    /\ Running
    /\ \E i \in 1..Len(results) :
        /\ results[i].status \in {"stale", "unavailable"}
        /\ lkg[REGISTRY[i]].status = "fresh"
        /\ lkg[REGISTRY[i]].fetched_at_utc < results[i].fetched_at_utc

\* C3 (as stated): with a Fresh LKG record (T, U, c, n), a run that fails
\* with explanation R writes Stale with those four fields and reason
\* exactly R, whether R was thrown or returned.
C3_ReasonExactlyR ==
    Running =>
        \A i \in 1..Len(results) :
            LET s == REGISTRY[i] IN
            (Readable(lkg[s]) /\ outcomes[i].kind \in {"throw", "fallback"}) =>
                /\ results[i].status = "stale"
                /\ results[i].nextEventUtc = lkg[s].nextEventUtc
                /\ results[i].source_url = lkg[s].source_url
                /\ results[i].confidence = lkg[s].confidence
                /\ results[i].notes = lkg[s].notes
                /\ results[i].reason = outcomes[i].msg

\* C3 (amended): as above, but the reason is "Crashed: " followed by R when
\* the provider threw R, and exactly R when the provider returned a stale
\* result carrying R.
C3_FallbackCorrectness ==
    Running =>
        \A i \in 1..Len(results) :
            LET s == REGISTRY[i] IN
            (Readable(lkg[s]) /\ outcomes[i].kind \in {"throw", "fallback"}) =>
                /\ results[i].status = "stale"
                /\ live[s] = results[i]
                /\ results[i].nextEventUtc = lkg[s].nextEventUtc
                /\ results[i].source_url = lkg[s].source_url
                /\ results[i].confidence = lkg[s].confidence
                /\ results[i].notes = lkg[s].notes
                /\ results[i].reason =
                       IF outcomes[i].kind = "throw"
                       THEN "Crashed: " \o outcomes[i].msg
                       ELSE outcomes[i].msg

C3_Witness ==
    /\ Running
    /\ \E i, j \in 1..Len(results) :
        /\ outcomes[i].kind = "throw"
        /\ outcomes[j].kind = "fallback"
        /\ results[i].status = "stale"
        /\ results[j].status = "stale"
        /\ results[j].reason = "HTTP 500"
        /\ results[i].nextEventUtc = "T2"
        /\ results[i].notes = Undef
        /\ results[j].nextEventUtc = "T1"

\* C4: when readLkgData finds no LKG document for a source and the run
\* fails (throw, empty, or any non-fresh result, a provider-built stale
\* record included), the live record is unavailable with nextEventUtc null.
C4_NoLkgTerminal ==
    Running =>
        \A i \in 1..Len(results) :
            LET s == REGISTRY[i] IN
            (~Readable(lkg[s]) /\ Failed(outcomes[i])) =>
                /\ results[i].status = "unavailable"
                /\ results[i].nextEventUtc = Null
                /\ live[s] = results[i]

\* The provider built a stale record itself (from the live file) and the
\* vault had nothing: the stale record's reason ends up as the explanation.
C4_Witness ==
    /\ Running
    /\ \E i, j \in 1..Len(results) :
        /\ outcomes[i].kind = "fallback"
        /\ lkg[REGISTRY[i]] = CORRUPT
        /\ live[REGISTRY[i]].status = "unavailable"
        /\ live[REGISTRY[i]].explanation = outcomes[i].msg
        /\ outcomes[j].kind = "ok"
        /\ lkg[REGISTRY[j]] = ABSENT
        /\ live[REGISTRY[j]].status = "unavailable"

\* C5: a provider that throws or returns an empty / status-less result is
\* turned into an Unavailable failure for that source ("Crashed: ..."),
\* written as Unavailable when there is no LKG; the loop stays at the next
\* entry with its step enabled, and the process only exits through the
\* summary with one result per registry entry.
CrashMessage(o) ==
    IF o.kind = "throw" THEN o.msg ELSE "Provider returned invalid/empty result"

C5_CrashIsolation ==
    /\ Running =>
        \A i \in 1..Len(results) :
            LET s == REGISTRY[i] IN
            outcomes[i].kind \in {"throw", "empty"} =>
                /\ live[s] = results[i]
                /\ ~Readable(lkg[s]) =>
                      results[i] = UnavailableRecord(s,
                          "Crashed: " \o CrashMessage(outcomes[i]),
                          results[i].fetched_at_utc)
                /\ Readable(lkg[s]) =>
                      /\ results[i].status = "stale"
                      /\ results[i].reason = "Crashed: " \o CrashMessage(outcomes[i])
    /\ (pc = "loop") => (idx = Len(results) + 1 /\ idx <= Len(REGISTRY))
    /\ (pc = "summary") => Len(results) = Len(REGISTRY)
    /\ (pc = "exited" /\ results # << >>) =>
            (Len(results) = Len(REGISTRY) /\ exitCode = ExitCodeOf(results))

C5_Witness ==
    /\ pc = "exited"
    /\ Len(results) = Len(REGISTRY)
    /\ outcomes[1].kind = "throw"
    /\ results[1].status = "unavailable"
    /\ outcomes[2].kind = "fresh"
    /\ results[2].status = "fresh"
    /\ exitCode = 0

\* C6: readLkgData returns null for an LKG file with invalid JSON exactly as
\* for a missing file, and a failed run for that source writes an
\* Unavailable live record.
C6_CorruptLkgRecovery ==
    Running =>
        \A i \in 1..Len(results) :
            LET s == REGISTRY[i] IN
            lkg[s] = CORRUPT =>
                /\ readLkgData(lkg, s) = readLkgData([lkg EXCEPT ![s] = ABSENT], s)
                /\ Failed(outcomes[i]) =>
                      /\ results[i].status = "unavailable"
                      /\ results[i].nextEventUtc = Null
                      /\ live[s] = results[i]

C6_Witness ==
    /\ Running
    /\ \E i \in 1..Len(results) :
        /\ lkg[REGISTRY[i]] = CORRUPT
        /\ outcomes[i].kind = "throw"
        /\ live[REGISTRY[i]].status = "unavailable"

\* C7: the process exits 1 exactly when strictly more than half of the
\* sources ended Unavailable in the run (2 * unavailable > total), else 0;
\* stale results do not count.
Unavailables == { i \in 1..Len(results) : results[i].status = "unavailable" }

C7_MajorityFailureExit ==
    (pc = "exited" /\ Len(results) = Len(REGISTRY)) =>
        /\ exitCode \in {0, 1}
        /\ (exitCode = 1) <=> (2 * Cardinality(Unavailables) > Len(REGISTRY))

\* Exactly half unavailable (the other stale) exits 0.
C7_Witness ==
    /\ pc = "exited"
    /\ Len(results) = Len(REGISTRY)
    /\ 2 * Cardinality(Unavailables) = Len(REGISTRY)
    /\ \E i \in 1..Len(results) : results[i].status = "stale"
    /\ exitCode = 0

C7_WitnessMajority ==
    /\ pc = "exited"
    /\ Len(results) = Len(REGISTRY)
    /\ 2 * Cardinality(Unavailables) > Len(REGISTRY)
    /\ exitCode = 1

\* C8 (as stated): the record written for a source depends only on what the
\* fetch / extraction did and on the LKG document: two iterations for the
\* same source that agree on both write the same record, up to timestamps,
\* whatever the live store held before.
C8_LiveNeverInfluences ==
    \A a, b \in obs :
        (a.src = b.src /\ a.outcome = b.outcome /\ a.lkgDoc = b.lkgDoc)
            => a.written = b.written

\* C9: once the browser budget has been used 3 times in the process, a
\* fetchHtml call with useBrowserOnBlocked that meets 403 or 429 returns
\* ok = false, failureType Blocked, and launches no browser.
LastResponse == responses[Len(responses)]

C9_BudgetExhaustion ==
    (budgetAtCall = BrowserBudgetMax /\ opts.useBrowserOnBlocked) =>
        /\ fpc \notin {"launch", "page"}
        /\ launches = 0
        /\ (/\ fpc = "done"
            /\ LastResponse.kind = "status"
            /\ IsBlockedStatus(LastResponse.status)) =>
                /\ fres.kind = "fetch"
                /\ fres.ok = FALSE
                /\ fres.failureType = "blocked"
                /\ fres.mode = "http"
                /\ budgetCount = BrowserBudgetMax

C9_Witness ==
    /\ budgetAtCall = BrowserBudgetMax
    /\ opts.useBrowserOnBlocked
    /\ fpc = "done"
    /\ Len(responses) = 2
    /\ LastResponse = [kind |-> "status", status |-> 403]
    /\ fres.failureType = "blocked"

\* C10: one fetchHtml call never issues more than retries + 1 HTTP requests,
\* and when every attempt is answered by a non-2xx status other than 403/429
\* it issues exactly retries + 1 and returns a failure.
PlainHttpError(resp) ==
    /\ resp.kind = "status"
    /\ ~(resp.status >= 200 /\ resp.status < 300)
    /\ ~IsBlockedStatus(resp.status)

C10_RetryBound ==
    /\ Len(responses) <= opts.retries + 1
    /\ (/\ fpc = "done"
        /\ fres.kind = "fetch"
        /\ \A i \in 1..Len(responses) : PlainHttpError(responses[i])) =>
            /\ Len(responses) = opts.retries + 1
            /\ fres = HttpFailure(LastResponse.status)
            /\ ~fres.ok

C10_Witness ==
    /\ fpc = "done"
    /\ fres.kind = "fetch"
    /\ opts.retries = MaxRetries
    /\ Len(responses) = MaxRetries + 1
    /\ \A i \in 1..Len(responses) : responses[i] = [kind |-> "status", status |-> 500]
    /\ fres.error = "HTTP 500"

\* The call in progress (or just finished) is a fetchHtml call.
InFetchHtml ==
    \/ fpc \in {"http", "sleep", "launch", "page"}
    \/ fpc = "done" /\ fres.kind \in {"fetch", "threw"}

\* The browser launch of the call that just finished failed.
LaunchFailed ==
    /\ fpc = "done"
    /\ launches > 0
    /\ \/ fres = BrowserFailure("launch failed")
       \/ fres.kind = "wbp_launch_failed"

\* C11 (as stated): the browser budget is used only after a browser has been
\* launched successfully: a call (fetchHtml escalation or withBrowserPage)
\* whose browser launch failed leaves the remaining budget as it was when
\* the call started.
C11_BudgetOnlyAfterLaunch ==
    LaunchFailed =>
        getRemaining(budgetCount) = getRemaining(budgetAtCall)

\* C12 (as stated): in a fetchHtml call, a 403 / 429 response met while
\* escalation is disallowed or the budget is used up is the last request of
\* the call, and the call has returned a Blocked failure.
C12_BlockedReturnsImmediately ==
    InFetchHtml =>
        \A i \in 1..Len(responses) :
            (/\ responses[i].kind = "status"
             /\ IsBlockedStatus(responses[i].status)
             /\ (~opts.useBrowserOnBlocked \/ budgetAtCall = BrowserBudgetMax)) =>
                /\ i = Len(responses)
                /\ fpc = "done"
                /\ fres.ok = FALSE
                /\ fres.failureType = "blocked"

\* C13: fetchHtml and fetchWithRetry never end in an exception: whatever the
\* requests and the browser met (status, unreadable body, network error,
\* timeout, launch / navigation / close failure), a finished call has
\* returned a result value with a boolean ok, and a failed one names its error
\* unless it is a browser or old-helper result for a non-2xx status.
WbpKinds ==
    {"wbp_exhausted", "wbp_launch_failed", "wbp_returned", "wbp_threw",
     "wbp_close_failed"}

C13_FetchNeverThrows ==
    /\ fres.kind # "threw"
    /\ (fpc = "done" /\ fres.kind \notin WbpKinds) =>
            /\ fres.kind \in {"fetch", "retry"}
            /\ fres.ok \in BOOLEAN
            /\ fres.ok => (fres.status >= 200 /\ fres.status < 300)
            /\ (~fres.ok /\ fres.status = 0) =>
                    (Truthy(fres.error) \/ fres.mode = "browser")

\* A fetchHtml call whose escalation ended in an exception (the browser is
\* still open), then an unreadable body, then a network error: returned.
C13_Witness ==
    /\ fpc = "done"
    /\ fres = LastErrorFailure([kind |-> "neterr", status |-> 0])
    /\ opts.retries = 2
    /\ Len(responses) = 3
    /\ launches = 1
    /\ openBrowsers > 0
    /\ responses[2].kind = "bodyerr"

\* C14: every record in the live store has status fresh, stale or
\* unavailable; a fresh or stale record has an event time, an unavailable
\* record has nextEventUtc null; whatever shape the provider returned.
C14_StatusEventInvariant ==
    \A s \in Sources :
        live[s] # ABSENT =>
            /\ live[s].status \in {"fresh", "stale", "unavailable"}
            /\ live[s].status \in {"fresh", "stale"} =>
                    (live[s].nextEventUtc # Null /\ Truthy(live[s].nextEventUtc))
            /\ live[s].status = "unavailable" => live[s].nextEventUtc = Null
            /\ (live[s].nextEventUtc # Null) <=>
                    (live[s].status \in {"fresh", "stale"})

\* An old-format "ok" result downgraded to stale, and a provider-built
\* fallback written as unavailable, in the same run.
C14_Witness ==
    /\ Running
    /\ \E i, j \in 1..Len(results) :
        /\ outcomes[i].kind = "ok"
        /\ live[REGISTRY[i]].status = "stale"
        /\ live[REGISTRY[i]].nextEventUtc = lkg[REGISTRY[i]].nextEventUtc
        /\ outcomes[j].kind = "fallback"
        /\ live[REGISTRY[j]].status = "unavailable"
        /\ live[REGISTRY[j]].nextEventUtc = Null

\* C15: writeLkgJson called with a record whose status is not fresh returns
\* without throwing and changes no document of the LKG vault.
C15_NonFreshIsNoOp ==
    \A o \in obs :
        (o.op = "writeLkgJson" /\ o.arg.status # "fresh") =>
            /\ o.threw = FALSE
            /\ o.changed = {}

\* A stale record offered to a vault that holds an older fresh document.
C15_Witness ==
    \E o \in obs :
        /\ o.op = "writeLkgJson"
        /\ o.arg.status = "stale"
        /\ o.changed = {}
        /\ lkg[o.arg.game].status = "fresh"
        /\ lkg[o.arg.game].nextEventUtc # o.arg.nextEventUtc

\* C16: a run that got past ensureDataDirs processes the registry entries
\* one by one in registry order, each exactly once, writing a live record
\* for each, and always reaches the summary and the process exit with a
\* result for every entry, whichever providers fail.
C16_Termination ==
    /\ [](Running =>
            /\ Len(results) = idx - 1
            /\ Len(outcomes) = Len(results)
            /\ idx <= Len(REGISTRY) + 1
            /\ \A i \in 1..Len(results) :
                    /\ results[i].game = REGISTRY[i]
                    /\ live[REGISTRY[i]] = results[i])
    /\ [](pc = "loop" =>
            <>(/\ pc = "exited"
               /\ Len(results) = Len(REGISTRY)
               /\ exitCode \in {0, 1}))

\* Every provider threw, and the run still got to its exit.
C16_Witness ==
    /\ pc = "exited"
    /\ Len(results) = Len(REGISTRY)
    /\ \A i \in 1..Len(results) :
            /\ outcomes[i].kind = "throw"
            /\ live[REGISTRY[i]] = results[i]
    /\ exitCode = 1

\* C17: a start whose ensureDataDirs fails goes straight to the exit with
\* code 1: no provider is called (the clock does not tick, no outcome), no
\* result is built and neither store changes.
C17_DirsFailExit ==
    [][ (pc \in {"idle", "exited"} /\ pc' = "exited") =>
            /\ exitCode' = 1
            /\ exitCode' # 0
            /\ results' = << >>
            /\ outcomes' = << >>
            /\ clock' = clock
            /\ live' = live
            /\ lkg' = lkg
      ]_vars

\* A failed start after an earlier run that left documents in both stores.
C17_Witness ==
    /\ pc = "exited"
    /\ run > 1
    /\ results = << >>
    /\ exitCode = 1
    /\ \E s \in Sources : live[s] # ABSENT /\ lkg[s] # ABSENT

\* C18: a Stale record written for a source carries, as its last-success
\* time, the fetched_at_utc of the Fresh record of the last successful run
\* (the LKG document), however many failed runs came since; and the
\* providers' buildFallback, applied to a Fresh record and again to the
\* Stale record it built, keeps that Fresh record's time as last_good_at_utc.
C18_StickyLastGood ==
    /\ Running =>
        \A i \in 1..Len(results) :
            LET s == REGISTRY[i] IN
            results[i].status = "stale" =>
                /\ live[s] = results[i]
                /\ lkg[s].status = "fresh"
                /\ results[i].last_success_at_utc = lkg[s].fetched_at_utc
                /\ results[i].last_success_at_utc < results[i].fetched_at_utc
    /\ \A s \in Sources, m \in Messages :
            live[s].status = "fresh" =>
                LET s1 == buildFallback(s, FailureTypeOf(m), m, live[s], clock + 1)
                    s2 == buildFallback(s, FailureTypeOf(m), m, s1, clock + 2)
                IN /\ s1.status = "stale" /\ s2.status = "stale"
                   /\ s1.last_good_at_utc = live[s].fetched_at_utc
                   /\ s2.last_good_at_utc = live[s].fetched_at_utc

\* The second failed run in a row after the Fresh one: the Stale record is
\* built while the live store holds the previous Stale record, and still
\* carries the time of the Fresh run, at least two runs back.
C18_Witness ==
    /\ Running
    /\ \E i \in 1..Len(results) :
        /\ results[i].status = "stale"
        /\ results[i].last_success_at_utc = lkg[REGISTRY[i]].fetched_at_utc
        /\ results[i].fetched_at_utc - results[i].last_success_at_utc
               >= 2 * Len(REGISTRY)

\* C19 (as stated): a provider that throws an error with message R is given
\* an Unavailable failure whose explanation is R.
C19_ExplanationIsMessage ==
    Running =>
        \A i \in 1..Len(results) :
            (outcomes[i].kind = "throw" /\ ~Readable(lkg[REGISTRY[i]])) =>
                /\ results[i].status = "unavailable"
                /\ results[i].failure_type = "unavailable"
                /\ results[i].explanation = outcomes[i].msg

\* C19 (amended): the failure has kind Unavailable and its explanation is
\* "Crashed: " followed by R; it is written as it is when there is no LKG
\* document, and becomes the reason of the Stale record when there is one.
C19_CrashExplanation ==
    Running =>
        \A i \in 1..Len(results) :
            LET s == REGISTRY[i] IN
            outcomes[i].kind = "throw" =>
                /\ ~Readable(lkg[s]) =>
                      /\ results[i].status = "unavailable"
                      /\ results[i].failure_type = "unavailable"
                      /\ results[i].nextEventUtc = Null
                      /\ results[i].explanation = "Crashed: " \o outcomes[i].msg
                /\ Readable(lkg[s]) =>
                      results[i].reason = "Crashed: " \o outcomes[i].msg

C19_Witness ==
    /\ Running
    /\ \E i \in 1..Len(results) :
        /\ outcomes[i] = [kind |-> "throw", msg |-> "HTTP 500"]
        /\ lkg[REGISTRY[i]] = ABSENT
        /\ live[REGISTRY[i]].explanation = "Crashed: HTTP 500"
        /\ live[REGISTRY[i]].failure_type = "unavailable"

\* C20 (as stated): refresh-all exits 1 exactly when some failed provider has
\* no JSON file in the data directory or no provider succeeded; with at
\* least one success and a JSON file for every failed provider it exits 0.
RaFailedWithoutJson ==
    { i \in 1..Len(results) :
        ~results[i].success /\ live[REGISTRY[i]] = ABSENT }

C20_ReadmeExitPolicy ==
    (pc = "exited" /\ Len(results) = Len(REGISTRY)) =>
        /\ exitCode \in {0, 1}
        /\ (exitCode = 1) <=>
              \/ RaFailedWithoutJson # {}
              \/ \A i \in 1..Len(results) : ~results[i].success

\* C21 (as stated): the page shows "Data Unavailable" and starts no timer
\* for a document with no event time, confidence none or status
\* unavailable; it starts the timer for no unavailable document; and for a
\* stale document that can be shown it renders the countdown (time until or
\* since the event) with the note "Using cached data" and the reason.
PageUnavailable(data) ==
    \/ ~Truthy(data.nextEventUtc)
    \/ data.confidence = "none"
    \/ data.status = "unavailable"

C21_RendersCountdownForStale ==
    \A o \in obs :
        o.op = "updateCountdown" =>
            /\ PageUnavailable(o.data) =>
                  (o.view.countdown = "Data Unavailable" /\ ~o.view.timer)
            /\ o.view.timer => o.data.status # "unavailable"
            /\ (o.data.status = "stale" /\ ~PageUnavailable(o.data)) =>
                  /\ o.view.timer
                  /\ o.view.countdown \in {"Time Until Event", "Time Since Event"}
                  /\ o.view.notes =
                        IF Truthy(o.data.reason)
                        THEN "Using cached data: " \o o.data.reason
                        ELSE "Using cached data"

\* C21 (amended): as above, but what the countdown element shows for a
\* stale document is the time until the event while it is ahead, and once it
\* has passed "Updating..." for an upcoming type (next-*, *reset*) and the
\* time since the event otherwise.
C21_FrontendRendering ==
    \A o \in obs :
        o.op = "updateCountdown" =>
            /\ PageUnavailable(o.data) =>
                  (o.view.countdown = "Data Unavailable" /\ ~o.view.timer)
            /\ o.view.timer => o.data.status # "unavailable"
            /\ (o.data.status = "stale" /\ ~PageUnavailable(o.data)) =>
                  /\ o.view.timer
                  /\ o.view.staleClass
                  /\ o.view.countdown =
                        IF o.future THEN "Time Until Event"
                        ELSE IF IsUpcoming(o.data.game) THEN "Updating..."
                        ELSE "Time Since Event"
                  /\ o.view.notes =
                        IF Truthy(o.data.reason)
                        THEN "Using cached data: " \o o.data.reason
                        ELSE "Using cached data"

\* A stale document of an upcoming type whose event has passed while the
\* timer was running.
C21_Witness ==
    \E o \in obs :
        /\ o.op = "updateCountdown"
        /\ o.data.status = "stale"
        /\ o.data.game = "gta.weekly-reset"
        /\ o.view.timer
        /\ ~o.future
        /\ o.view.countdown = "Updating..."
        /\ Truthy(o.data.reason)
        /\ o.view.notes = "Using cached data: " \o o.data.reason

\* C22 (as stated): one fetchHtml call uses at most one unit of the browser
\* budget and launches at most one browser; once it has escalated it makes
\* no further HTTP request (it neither backs off nor requests again), and
\* when it has finished, its result is the outcome of that browser fetch.
C22_SingleEscalation ==
    InFetchHtml =>
        /\ budgetCount - budgetAtCall <= 1
        /\ launches <= 1
        /\ budgetCount > budgetAtCall =>
              /\ fpc \in {"launch", "page", "done"}
              /\ fpc = "done" => fres.mode = "browser"

\* C23 (as stated): every failed result of fetchHtml carries a failure
\* type: Blocked when the last direct response was 403 / 429 or the call
\* escalated to the browser, Unavailable for the other statuses, network
\* failures and timeouts; never ParseFailed.
C23_FailureTagged ==
    (fpc = "done" /\ fres.kind = "fetch" /\ ~fres.ok) =>
        /\ fres.failureType \in {"blocked", "unavailable"}
        /\ fres.failureType =
              IF \/ fres.mode = "browser"
                 \/ LastResponse.kind = "status" /\ IsBlockedStatus(LastResponse.status)
              THEN "blocked" ELSE "unavailable"

\* C24 (as stated): when fetchHtml's escalation (fetchWithBrowser) or
\* withBrowserPage has returned or thrown, whatever happened in between, no
\* browser it launched is still open.
C24_BrowserAlwaysClosed ==
    fpc \in {"idle", "done"} => openBrowsers = 0

\* C25 (as stated): every Fresh record in the live store and in the LKG
\* vault has a last_success_at_utc equal to its fetched_at_utc, a time at
\* which the orchestrator ran.
C25_FreshStampsSuccess ==
    \A s \in Sources :
        /\ live[s].status = "fresh" =>
              /\ live[s].fetched_at_utc \in 1..clock
              /\ live[s].last_success_at_utc = live[s].fetched_at_utc
        /\ lkg[s].status = "fresh" =>
              /\ lkg[s].fetched_at_utc \in 1..clock
              /\ lkg[s].last_success_at_utc = lkg[s].fetched_at_utc

\* C26 (as stated): whenever the GTA provider runs, the nextEventUtc it
\* returns is a Thursday 10:00:00.000 UTC, is not earlier than the current
\* time, is at most 7 days ahead, and is the earliest such Thursday 10:00.
C26_NextThursdayReset ==
    \A o \in obs :
        o.op = "gta.run" =>
            /\ o.nextEventUtc % WeekMs(7, 0, 0, 0) = WeekMs(4, 10, 0, 0)
            /\ o.nextEventUtc >= o.now
            /\ o.nextEventUtc - o.now <= WeekMs(7, 0, 0, 0)
            /\ o.nextEventUtc - WeekMs(7, 0, 0, 0) < o.now

\* C27: through any sequence of fetchHtml and withBrowserPage calls the
\* budget's used count stays within 0..3 and no step decreases it, so the
\* remaining budget is never negative and never increases; and a
\* withBrowserPage call made with nothing remaining throws without launching
\* a browser and leaves the budget as it was.
WithBrowserPageCalled ==
    /\ calls' = calls + 1
    /\ fres'.kind \in WbpKinds

C27_BudgetMonotonic ==
    /\ [](/\ budgetCount \in 0..BrowserBudgetMax
          /\ getRemaining(budgetCount) \in 0..BrowserBudgetMax)
    /\ [][/\ budgetCount' >= budgetCount
          /\ getRemaining(budgetCount') <= getRemaining(budgetCount)
          /\ (WithBrowserPageCalled /\ getRemaining(budgetCount) = 0) =>
                /\ fres' = WbpResult("wbp_exhausted")
                /\ launches' = 0
                /\ openBrowsers' = openBrowsers
                /\ budgetCount' = budgetCount]_vars

\* withBrowserPage has just thrown "Browser budget exhausted": the three
\* units were used before the call, by escalations or browser sessions.
C27_Witness ==
    /\ fpc = "done"
    /\ fres = WbpResult("wbp_exhausted")
    /\ budgetAtCall = BrowserBudgetMax
    /\ budgetCount = BrowserBudgetMax
    /\ launches = 0

\* C28: once the loop of a run is over (summary computed, and after the
\* exit), results holds exactly one record per registry entry, in registry
\* order, each with status fresh, stale or unavailable, so the three counts
\* of the summary add up to the number of registered sources; whatever the
\* providers returned ("fallback", "ok", nothing at all) or threw.
LoopOver == pc = "summary" \/ (pc = "exited" /\ results # << >>)

C28_CountsAddUp ==
    LoopOver =>
        /\ Len(results) = Len(REGISTRY)
        /\ \A i \in 1..Len(REGISTRY) :
              /\ results[i].game = REGISTRY[i]
              /\ results[i].status \in {"fresh", "stale", "unavailable"}
        /\ Count(results, "fresh") + Count(results, "stale")
              + Count(results, "unavailable") = Len(REGISTRY)

\* A finished run in which one provider returned a "fallback" record and
\* another the old "ok" status.
C28_Witness ==
    /\ pc = "exited"
    /\ Len(outcomes) = Len(REGISTRY)
    /\ \E i, j \in 1..Len(outcomes) :
          /\ outcomes[i].kind = "fallback"
          /\ outcomes[j].kind = "ok"
    /\ Count(results, "unavailable") = 2

\* C29: the documents of a source are always found under its registry key:
\* every live document and every readable LKG document stored for a source
\* carries that source's own key; the pass over a source writes its result
\* to that source's live document, a Fresh result also to its LKG document;
\* and a failed pass over a source whose LKG document is a readable Fresh
\* record ends Stale with that record's event time.
C29_KeysAgree ==
    /\ [](\A s \in Sources :
            /\ live[s] # ABSENT => live[s].game = s
            /\ Readable(lkg[s]) => lkg[s].game = s)
    /\ [][(pc = "loop" /\ idx' = idx + 1) =>
            \E s \in {REGISTRY[idx]}, r \in {results'[Len(results')]} :
               /\ r.game = s
               /\ live'[s] = r
               /\ r.status = "fresh" => lkg'[s] = r
               /\ (r.status # "fresh" /\ Readable(lkg[s]) /\ lkg[s].status = "fresh") =>
                     /\ r.status = "stale"
                     /\ r.nextEventUtc = lkg[s].nextEventUtc]_vars

\* The second source was Fresh in one run and its provider threw in a later
\* one: its live document is the Stale copy of its own LKG document.
C29_Witness ==
    \E s \in {REGISTRY[Len(REGISTRY)]} :
        /\ run >= 2
        /\ pc = "exited"
        /\ Len(outcomes) = Len(REGISTRY)
        /\ outcomes[Len(REGISTRY)].kind = "throw"
        /\ live[s].status = "stale"
        /\ live[s].game = s
        /\ lkg[s].status = "fresh"
        /\ lkg[s].game = s
        /\ live[s].nextEventUtc = lkg[s].nextEventUtc

\* C30: the pass over one source changes no document of any other source:
\* their live and LKG documents are after the step what they were before;
\* and the source's own LKG document changes only when the result is Fresh.
C30_FrameOfOnePass ==
    [][(pc = "loop" /\ idx' = idx + 1) =>
         \E s \in {REGISTRY[idx]}, r \in {results'[Len(results')]} :
            /\ \A t \in Sources \ {s} :
                  /\ live'[t] = live[t]
                  /\ lkg'[t] = lkg[t]
            /\ r.status # "fresh" => lkg'[s] = lkg[s]]_vars

\* The last source has just been processed Fresh in a later run while the
\* first source, Stale in the same run, keeps its documents.
C30_Witness ==
    /\ pc = "summary"
    /\ run >= 2
    /\ Len(results) = Len(REGISTRY)
    /\ results[Len(REGISTRY)].status = "fresh"
    /\ results[1].status = "stale"
    /\ live[REGISTRY[1]] = results[1]
    /\ lkg[REGISTRY[1]].status = "fresh"
    /\ live[REGISTRY[Len(REGISTRY)]] = results[Len(REGISTRY)]

====
